---- MODULE Spec2Model ----
(***************************************************************************)
(* Model of streamlit_food_nutrition_app.py: one Streamlit script that is  *)
(* re-executed from top to bottom on every user interaction.  A script run *)
(* loads the uploaded consumption CSV, loads the nutrition mapping Excel,  *)
(* detects the column roles and, when the "Compute results" button was     *)
(* pressed, joins, scales and aggregates.                                  *)
(*                                                                         *)
(* Cells of a DataFrame are records [kind, n, s]: an integer cell, a text  *)
(* cell (a sequence of one-character strings) or NaN.  Scaled nutrient     *)
(* amounts are kept in hundredths (grams * per-100g value), so that the    *)
(* division by 100.0 of the source is exact in integer arithmetic.         *)
(* The column roles of the consumption file are the defaults of the        *)
(* selectboxes (columns 0..3 = household, person, food code, grams); the   *)
(* uploaded file has those four columns and its column labels differ from  *)
(* the labels of the mapping sheet.  Numeric cells are integers.           *)
(***************************************************************************)
EXTENDS Integers, Sequences, FiniteSets, TLC

\* ---------------------------------------------------------------- bounds
MaxConsRows == 2
MaxMappingRows == 2

\* ----------------------------------------------------------------- cells
NaN == [kind |-> "nan", n |-> 0, s |-> <<>>]
Num(k) == [kind |-> "int", n |-> k, s |-> <<>>]
Str(t) == [kind |-> "str", n |-> 0, s |-> t]
IsNa(c) == c.kind = "nan"

Digits == <<"0", "1", "2", "3", "4", "5", "6", "7", "8", "9">>
DigitSet == {Digits[i] : i \in 1..10}
DigitVal(c) == (CHOOSE i \in 1..10 : Digits[i] = c) - 1

\* str(int): decimal digits, most significant first, "-" for negatives
RECURSIVE NatToStr(_)
NatToStr(k) == IF k < 10 THEN <<Digits[k + 1]>>
               ELSE NatToStr(k \div 10) \o <<Digits[(k % 10) + 1]>>
IntToStr(k) == IF k < 0 THEN <<"-">> \o NatToStr(0 - k) ELSE NatToStr(k)

\* Series.astype(str) on one cell
AsTypeStr(c) == CASE c.kind = "int" -> IntToStr(c.n)
                  [] c.kind = "str" -> c.s
                  [] OTHER -> <<"n", "a", "n">>

\* Series.str.strip() on one string: leading and trailing blanks removed
RECURSIVE LStrip(_)
LStrip(t) == IF t # <<>> /\ Head(t) = " " THEN LStrip(Tail(t)) ELSE t
RECURSIVE RStrip(_)
RStrip(t) == IF t # <<>> /\ t[Len(t)] = " " THEN RStrip(SubSeq(t, 1, Len(t) - 1)) ELSE t
StrStrip(t) == RStrip(LStrip(t))

\* Series.str.replace(',', '') on one string
StrReplaceCommaRaw(t) == t
StrReplaceComma(t) == SelectSeq(t, LAMBDA ch : ch # ",")

\* value of a non-empty digit string
RECURSIVE DigitsToNat(_)
DigitsToNat(t) == IF t = <<>> THEN 0
                  ELSE 10 * DigitsToNat(SubSeq(t, 1, Len(t) - 1)) + DigitVal(t[Len(t)])
AllDigits(t) == t # <<>> /\ \A i \in 1..Len(t) : t[i] \in DigitSet

\* pd.to_numeric(errors='coerce') on one string over the characters the
\* tables use: an optionally signed run of digits parses, a string holding a
\* comma, a letter or a slash (also "nan") becomes NaN
ParseNumber(t) == IF AllDigits(t) THEN Num(DigitsToNat(t))
                  ELSE IF t # <<>> /\ Head(t) = "-" /\ AllDigits(Tail(t))
                       THEN Num(0 - DigitsToNat(Tail(t)))
                       ELSE NaN
\* pd.to_numeric(errors='coerce') on one cell of any kind
ToNumeric(c) == CASE c.kind = "int" -> c
                  [] c.kind = "str" -> ParseNumber(c.s)
                  [] OTHER -> NaN
FillNa0(c) == IF IsNa(c) THEN Num(0) ELSE c

\* nutrient-column coercion of the mapping loader (line 55)
CoerceNutrientNoFill(c) == ToNumeric(c)
CoerceNutrient(c) == FillNa0(ToNumeric(c))
\* grams coercion of Compute before the fill (line 95)
CoerceGrams(c) == ToNumeric(Str(StrReplaceComma(AsTypeStr(c))))
\* food-code normalisation of both tables (lines 102-103)
NormCode(c) == Str(StrStrip(AsTypeStr(c)))

\* ------------------------------------------------------ tables and inputs
Name(t) == Str(<<t>>)
ConsRow(h, p, c, g) == [hh |-> h, id |-> p, code |-> c, grams |-> g]

\* rows a consumption CSV may hold (household, person, food code, grams)
ConsRowChoices ==
    { ConsRow(Num(1), Num(1), Num(101), Num(150)),
      ConsRow(Num(1), Num(1), Str(<<"1", "0", "2", " ">>), Num(80)),
      ConsRow(Num(1), Num(2), Num(101), Str(<<"1", ",", "2", "0", "0">>)),
      ConsRow(Num(1), Num(2), Num(999), Str(<<"a", "b", "c">>)),
      ConsRow(Num(1), Num(1), Num(999), Num(50)),
      ConsRow(Num(1), Num(1), Num(101), Num(0 - 50)),
      ConsRow(NaN, Num(1), Num(102), NaN) }

\* rows the mapping sheet may hold: code, name, translation, nutrients...
MappingRowChoices ==
    { <<Num(101), Name("rice"), Name("chawal"), Num(100), Num(2)>>,
      <<Str(<<" ", "1", "0", "2">>), Name("dal"), NaN, Str(<<"n", "/", "a">>), Num(3)>>,
      <<Num(101), Name("rice"), Name("chawal"), Num(50), NaN>> }

\* widths of the mapping sheet: 2 lacks the translation column, 3 has no
\* nutrient column, 4 and 5 have one and two nutrient columns
NumColsChoices == {2, 3, 4, 5}

SeqsUpTo(S, k) == UNION {[1..m -> S] : m \in 0..k}
ConsTables == SeqsUpTo(ConsRowChoices, MaxConsRows)
Truncate(rows, w) == [i \in 1..Len(rows) |-> SubSeq(rows[i], 1, w)]
MappingSheets ==
    { [ncols |-> w, rows |-> Truncate(rows, w)] :
          w \in NumColsChoices, rows \in SeqsUpTo(MappingRowChoices, MaxMappingRows) }

\* a DataFrame variable: None, or a table of ncols columns
None == [present |-> FALSE, ncols |-> 0, rows |-> <<>>]
Frame(w, rows) == [present |-> TRUE, ncols |-> w, rows |-> rows]

\* ------------------------------------------------------ mapping loader
\* lines 54-55: every column after the third coerced to numeric, NaN -> 0
CoerceMappingRow(r) == [c \in 1..Len(r) |-> IF c > 3 THEN CoerceNutrient(r[c]) ELSE r[c]]
CoerceMapping(sheet) ==
    Frame(sheet.ncols, [i \in 1..Len(sheet.rows) |-> CoerceMappingRow(sheet.rows[i])])
\* lines 48-60: the value of mapping_df after the try/except
\*   read_excel raises        -> mapping_df keeps None
\*   columns[2] raises        -> mapping_df keeps the frame read_excel returned
\*   otherwise                -> nutrient columns coerced
LoadMappingFrame(src) ==
    IF ~src.reachable THEN None
    ELSE IF src.sheet.ncols < 3 THEN Frame(src.sheet.ncols, src.sheet.rows)
    ELSE CoerceMapping(src.sheet)
LoadMappingFails(src) == ~src.reachable \/ src.sheet.ncols < 3

\* line 78: list(mapping_df.columns[3:]) as 1-based column positions
NutritionCols(df) == [k \in 1..(df.ncols - 3) |-> k + 3]

\* --------------------------------------------------- Compute: the pipeline
\* lines 94-99 and 102: the working copy cons with grams numeric (NaN -> 0)
\* and the food code normalised
MissingGrams(df) == {i \in 1..Len(df.rows) : IsNa(CoerceGrams(df.rows[i].grams))}
PrepareCons(df) ==
    [i \in 1..Len(df.rows) |->
        [hh |-> df.rows[i].hh, id |-> df.rows[i].id,
         code |-> NormCode(df.rows[i].code),
         grams |-> FillNa0(CoerceGrams(df.rows[i].grams))]]
\* lines 101 and 103: the working copy map_df with the food code normalised
PrepareMap(df) ==
    [j \in 1..Len(df.rows) |-> [df.rows[j] EXCEPT ![1] = NormCode(df.rows[j][1])]]

MergedRow(c, m, cols) ==
    [hh |-> c.hh, id |-> c.id, code |-> c.code, grams |-> c.grams,
     map_code |-> m[1], name |-> m[2], trans |-> m[3],
     nut |-> [k \in 1..Len(cols) |-> m[cols[k]]]]
UnmatchedRow(c, cols) ==
    [hh |-> c.hh, id |-> c.id, code |-> c.code, grams |-> c.grams,
     map_code |-> NaN, name |-> NaN, trans |-> NaN,
     nut |-> [k \in 1..Len(cols) |-> NaN]]
\* the rows one left row gives: one per right row with an equal key, in the
\* order of the right table; a single NaN-filled row when there is none
RECURSIVE MatchesFrom(_, _, _, _)
MatchesFrom(c, map, cols, j) ==
    IF j > Len(map) THEN <<>>
    ELSE (IF map[j][1] = c.code THEN <<MergedRow(c, map[j], cols)>> ELSE <<>>)
         \o MatchesFrom(c, map, cols, j + 1)
InnerRows(c, map, cols) == MatchesFrom(c, map, cols, 1)
LeftRows(c, map, cols) ==
    IF MatchesFrom(c, map, cols, 1) = <<>> THEN <<UnmatchedRow(c, cols)>>
    ELSE MatchesFrom(c, map, cols, 1)
\* lines 105-106: pd.merge(cons, map_df[...], how='left'), left order kept
RECURSIVE MergeFrom(_, _, _, _)
MergeFrom(cons, map, cols, i) ==
    IF i > Len(cons) THEN <<>>
    ELSE LeftRows(cons[i], map, cols) \o MergeFrom(cons, map, cols, i + 1)
Merge(cons, map, cols) == MergeFrom(cons, map, cols, 1)

\* line 108 / 138: merged[chosen_nutrition_cols].isna().all(axis=1)
AllNutritionNa(r) == \A k \in 1..Len(r.nut) : IsNa(r.nut[k])
\* line 114: (grams / 100.0) * value, in hundredths; NaN propagates
ForGrams(r, k) == IF IsNa(r.nut[k]) \/ IsNa(r.grams) THEN NaN
                  ELSE Num(r.grams.n * r.nut[k].n)

\* groupby(...).sum(): NaN values are skipped, an all-NaN group sums to 0
RECURSIVE SumSkipNa(_)
SumSkipNa(vals) == IF vals = <<>> THEN 0
                   ELSE (IF IsNa(Head(vals)) THEN 0 ELSE Head(vals).n) + SumSkipNa(Tail(vals))
\* groupby keys: rows with a NaN in any key column are left out (dropna)
FoodKey(r) == <<r.hh, r.id, r.name, r.trans>>
PersonKey(r) == <<r.hh, r.id>>
KeyHasNa(key) == \E k \in 1..Len(key) : IsNa(key[k])
\* line 117
FoodItemSummary(merged) ==
    { [hh |-> key[1], id |-> key[2], name |-> key[3], trans |-> key[4],
       grams |-> SumSkipNa([j \in 1..Len(SelectSeq(merged, LAMBDA r : FoodKey(r) = key)) |->
                               SelectSeq(merged, LAMBDA r : FoodKey(r) = key)[j].grams])] :
        key \in {FoodKey(merged[j]) : j \in {x \in 1..Len(merged) : ~KeyHasNa(FoodKey(merged[x]))}} }
\* lines 120-123
GroupTotals(merged, key, ncol) ==
    [k \in 1..ncol |->
        SumSkipNa([j \in 1..Len(SelectSeq(merged, LAMBDA r : PersonKey(r) = key)) |->
                      ForGrams(SelectSeq(merged, LAMBDA r : PersonKey(r) = key)[j], k)])]
NutritionSummary(merged, ncol) ==
    { [hh |-> key[1], id |-> key[2], totals |-> GroupTotals(merged, key, ncol)] :
        key \in {PersonKey(merged[j]) : j \in {x \in 1..Len(merged) : ~KeyHasNa(PersonKey(merged[x]))}} }

\* line 138: the unmatched rows' code column, drop_duplicates (first kept)
RECURSIVE DropDuplicates(_)
DropDuplicates(t) ==
    IF t = <<>> THEN <<>>
    ELSE LET init == DropDuplicates(SubSeq(t, 1, Len(t) - 1))
         IN IF \E i \in 1..Len(init) : init[i] = t[Len(t)] THEN init
            ELSE Append(init, t[Len(t)])
UnmatchedCodes(merged) ==
    DropDuplicates([j \in 1..Len(SelectSeq(merged, AllNutritionNa)) |->
                       SelectSeq(merged, AllNutritionNa)[j].code.s])

\* ----------------------------------------------- Compute: the button handler
NoOutput ==
    [error |-> "", computed |-> FALSE, warnings |-> <<>>, merged |-> <<>>,
     food_item_summary |-> {}, nutrition_summary |-> {}, downloads |-> {},
     unmatched |-> <<>>, unmatched_shown |-> FALSE]

\* lines 87-92: the error of the first failing precondition, "" when none
PreconditionErrorNoColsCheck(cons, mapping, cols) ==
    IF ~cons.present THEN "Please upload the consumption CSV first."
    ELSE IF ~mapping.present THEN "Could not load the nutrition mapping Excel from GitHub."
    ELSE ""
PreconditionError(cons, mapping, cols) ==
    IF ~cons.present THEN "Please upload the consumption CSV first."
    ELSE IF ~mapping.present THEN "Could not load the nutrition mapping Excel from GitHub."
    ELSE IF cols = <<>> THEN "No nutrition columns detected in mapping file."
    ELSE ""

Warning(kind, count) == [kind |-> kind, n |-> count]
\* lines 97-98 and 108-110: the warnings of a run, in the order emitted
Warnings(cons, merged) ==
    (IF MissingGrams(cons) # {}
     THEN <<Warning("non_numeric_grams", Cardinality(MissingGrams(cons)))>> ELSE <<>>)
    \o (IF \E j \in 1..Len(merged) : AllNutritionNa(merged[j])
        THEN <<Warning("unmatched_rows",
                       Cardinality({j \in 1..Len(merged) : AllNutritionNa(merged[j])}))>>
        ELSE <<>>)

\* lines 86-141: what one press of "Compute results" puts on the page
ComputeResults(cons, mapping, cols) ==
    IF PreconditionError(cons, mapping, cols) # ""
    THEN [NoOutput EXCEPT !.error = PreconditionError(cons, mapping, cols)]
    ELSE LET merged == Merge(PrepareCons(cons), PrepareMap(mapping), cols)
         IN [error |-> "", computed |-> TRUE,
             warnings |-> Warnings(cons, merged),
             merged |-> merged,
             food_item_summary |-> FoodItemSummary(merged),
             nutrition_summary |-> NutritionSummary(merged, Len(cols)),
             downloads |-> {"food_item_consumption.csv", "nutrition_summary.csv"},
             unmatched |-> UnmatchedCodes(merged),
             unmatched_shown |-> UnmatchedCodes(merged) # <<>>]

\* line 94: cons = cons_df.copy(); lines 95, 99, 102 assign into the copy, so
\* cons_df is what it was
ConsAfterComputeNoCopy(cons, mapping, cols) ==
    IF PreconditionError(cons, mapping, cols) # "" THEN cons
    ELSE Frame(cons.ncols, PrepareCons(cons))
ConsAfterCompute(cons, mapping, cols) == cons
\* line 101: map_df = mapping_df.copy(); line 103 assigns into the copy
MappingAfterCompute(cons, mapping, cols) == mapping

\* ------------------------------------------------------------------ state
VARIABLES
    cons_file,              \* the file in the uploader (None when empty)
    mapping_src,            \* what the mapping URL serves
    button,                 \* the button whose press started this script run
    pc,                     \* position of the script run
    example_shown,          \* line 30 ran in this run
    cons_df,                \* line 32-38
    mapping_df,             \* line 48-50
    mapping_error,          \* line 60 ran in this run
    chosen_nutrition_cols,  \* line 78 / 82
    crashed,                \* the run ended with an uncaught exception
    out,                    \* what Compute put on the page in this run
    prev                    \* results of the last Compute over the same inputs

vars == <<cons_file, mapping_src, button, pc, example_shown, cons_df, mapping_df,
          mapping_error, chosen_nutrition_cols, crashed, out, prev>>

Unreachable == [reachable |-> FALSE, sheet |-> [ncols |-> 0, rows |-> <<>>]]
MappingSources == {Unreachable} \cup {[reachable |-> TRUE, sheet |-> sh] : sh \in MappingSheets}

Init ==
    /\ cons_file = None
    /\ mapping_src \in MappingSources
    /\ button = "none"
    /\ pc = "idle"
    /\ example_shown = FALSE
    /\ cons_df = None
    /\ mapping_df = None
    /\ mapping_error = FALSE
    /\ chosen_nutrition_cols = <<>>
    /\ crashed = FALSE
    /\ out = NoOutput
    /\ prev = NoOutput

\* every widget interaction re-executes the script from its first line
StartRun(b) ==
    /\ button' = b
    /\ pc' = "load_cons"
    /\ example_shown' = FALSE
    /\ cons_df' = None
    /\ mapping_df' = None
    /\ mapping_error' = FALSE
    /\ chosen_nutrition_cols' = <<>>
    /\ crashed' = FALSE
    /\ out' = NoOutput
    /\ UNCHANGED mapping_src

\* line 20: the user puts a CSV into the empty uploader
UploadCsv ==
    /\ pc = "idle"
    /\ ~cons_file.present
    /\ \E t \in ConsTables : cons_file' = Frame(4, t)
    /\ prev' = NoOutput
    /\ StartRun("none")

\* line 20: the user removes the file from the uploader
RemoveCsv ==
    /\ pc = "idle"
    /\ cons_file.present
    /\ cons_file' = None
    /\ prev' = NoOutput
    /\ StartRun("none")

\* line 22: 'Show example CSV' pressed
ClickShowExample ==
    /\ pc = "idle"
    /\ prev' = IF out.computed THEN out ELSE prev
    /\ StartRun("example")
    /\ UNCHANGED cons_file

\* line 86: 'Compute results' pressed
ClickCompute ==
    /\ pc = "idle"
    /\ prev' = IF out.computed THEN out ELSE prev
    /\ StartRun("compute")
    /\ UNCHANGED cons_file

\* lines 22-41
LoadConsumption ==
    /\ pc = "load_cons"
    /\ example_shown' = (button = "example")
    /\ cons_df' = cons_file
    /\ pc' = "load_mapping"
    /\ UNCHANGED <<cons_file, mapping_src, button, mapping_df, mapping_error,
                   chosen_nutrition_cols, crashed, out, prev>>

\* lines 47-60
LoadMapping ==
    /\ pc = "load_mapping"
    /\ mapping_df' = LoadMappingFrame(mapping_src)
    /\ mapping_error' = LoadMappingFails(mapping_src)
    /\ pc' = "map_columns"
    /\ UNCHANGED <<cons_file, mapping_src, button, example_shown, cons_df,
                   chosen_nutrition_cols, crashed, out, prev>>

\* lines 64-82
MapColumns ==
    /\ pc = "map_columns"
    /\ ~(mapping_df.present /\ mapping_df.ncols < 3)
    /\ chosen_nutrition_cols' = IF mapping_df.present THEN NutritionCols(mapping_df) ELSE <<>>
    /\ pc' = "compute"
    /\ UNCHANGED <<cons_file, mapping_src, button, example_shown, cons_df, mapping_df,
                   mapping_error, crashed, out, prev>>

\* lines 74-76: mapping_df.columns[2] (or [0], [1]) raises IndexError, which
\* nothing catches: the run ends there
MapColumnsRaises ==
    /\ pc = "map_columns"
    /\ mapping_df.present /\ mapping_df.ncols < 3
    /\ crashed' = TRUE
    /\ pc' = "idle"
    /\ UNCHANGED <<cons_file, mapping_src, button, example_shown, cons_df, mapping_df,
                   mapping_error, chosen_nutrition_cols, out, prev>>

\* lines 86-144 with the button pressed
Compute ==
    /\ pc = "compute"
    /\ button = "compute"
    /\ out' = ComputeResults(cons_df, mapping_df, chosen_nutrition_cols)
    /\ cons_df' = ConsAfterCompute(cons_df, mapping_df, chosen_nutrition_cols)
    /\ mapping_df' = MappingAfterCompute(cons_df, mapping_df, chosen_nutrition_cols)
    /\ pc' = "idle"
    /\ UNCHANGED <<cons_file, mapping_src, button, example_shown, mapping_error,
                   chosen_nutrition_cols, crashed, prev>>

\* line 86 with the button not pressed: the block is skipped
SkipCompute ==
    /\ pc = "compute"
    /\ button # "compute"
    /\ pc' = "idle"
    /\ UNCHANGED <<cons_file, mapping_src, button, example_shown, cons_df, mapping_df,
                   mapping_error, chosen_nutrition_cols, crashed, out, prev>>

Next ==
    \/ UploadCsv
    \/ RemoveCsv
    \/ ClickShowExample
    \/ ClickCompute
    \/ LoadConsumption
    \/ LoadMapping
    \/ MapColumns
    \/ MapColumnsRaises
    \/ Compute
    \/ SkipCompute

Spec == Init /\ [][Next]_vars

\* ============================================================ properties
\* vocabulary of the properties, stated on the loaded tables
CodeText(c) == StrStrip(AsTypeStr(c))
EntriesOf(row) ==
    {j \in 1..Len(mapping_df.rows) : CodeText(mapping_df.rows[j][1]) = CodeText(row.code)}
HasEntry(row) == EntriesOf(row) # {}
FirstEntry(row) == mapping_df.rows[CHOOSE j \in EntriesOf(row) : \A x \in EntriesOf(row) : j <= x]
Quantity(row) == FillNa0(CoerceGrams(row.grams)).n
InGroup(row, g) == row.hh = g.hh /\ row.id = g.id
Range(t) == {t[i] : i \in 1..Len(t)}
RECURSIVE SumOver(_, _)
SumOver(S, f) == IF S = {} THEN 0
                 ELSE LET x == CHOOSE y \in S : TRUE IN f[x] + SumOver(S \ {x}, f)
ConsIdx == 1..Len(cons_df.rows)
ComputeRan == pc = "idle" /\ button = "compute" /\ ~crashed

\* C1: after a successful Compute, every (household, person) total of every
\* nutrient column is the sum over the group's matched consumption rows of
\* quantity/100 * the per-100g value of the matched entry (in hundredths)
C1_NutritionTotals ==
    out.computed =>
        \A g \in out.nutrition_summary : \A k \in 1..Len(chosen_nutrition_cols) :
            g.totals[k] =
                SumOver({i \in ConsIdx : InGroup(cons_df.rows[i], g) /\ HasEntry(cons_df.rows[i])},
                        [i \in ConsIdx |->
                            IF HasEntry(cons_df.rows[i])
                            THEN Quantity(cons_df.rows[i])
                                 * FirstEntry(cons_df.rows[i])[chosen_nutrition_cols[k]].n
                            ELSE 0])

\* C2: the merged table has exactly as many rows as the consumption table,
\* also when a food code occurs in more than one mapping row
C2_JoinTotal == out.computed => Len(out.merged) = Len(cons_df.rows)

\* C3: a consumption row without a nutrition entry adds nothing to the totals
\* of its group (the totals are those of the table without the unmatched
\* rows), and a group made only of unmatched rows is in the nutrition summary
\* with a total of zero for every nutrient
MatchedOnly == Frame(cons_df.ncols, SelectSeq(cons_df.rows, HasEntry))
SummaryOf(cons) ==
    NutritionSummary(Merge(PrepareCons(cons), PrepareMap(mapping_df), chosen_nutrition_cols),
                     Len(chosen_nutrition_cols))
Zeros == [k \in 1..Len(chosen_nutrition_cols) |-> 0]
C3_UnmatchedContributeNothing ==
    out.computed =>
        /\ \A i \in ConsIdx :
              ~IsNa(cons_df.rows[i].hh) /\ ~IsNa(cons_df.rows[i].id)
                 => \E g \in out.nutrition_summary : InGroup(cons_df.rows[i], g)
        /\ \A g \in out.nutrition_summary :
              IF \E i \in ConsIdx : InGroup(cons_df.rows[i], g) /\ HasEntry(cons_df.rows[i])
              THEN g \in SummaryOf(MatchedOnly)
              ELSE g.totals = Zeros
C3_Witness ==
    /\ out.computed
    /\ \E g \in out.nutrition_summary :
          /\ \E i \in ConsIdx : InGroup(cons_df.rows[i], g) /\ ~HasEntry(cons_df.rows[i])
          /\ \E k \in 1..Len(g.totals) : g.totals[k] # 0

\* C4: the unmatched-codes report holds exactly the trimmed, stringified codes
\* that a consumption row carries and no nutrition entry has, each once, and
\* it is shown only when it is not empty
C4_UnmatchedReport ==
    out.computed =>
        /\ Range(out.unmatched) =
              {CodeText(cons_df.rows[i].code) : i \in {x \in ConsIdx : ~HasEntry(cons_df.rows[x])}}
        /\ \A a, b \in 1..Len(out.unmatched) : out.unmatched[a] = out.unmatched[b] => a = b
        /\ out.unmatched_shown <=> out.unmatched # <<>>
C4_Witness ==
    /\ out.computed
    /\ Len(out.unmatched) = 1
    /\ Cardinality({i \in ConsIdx : CodeText(cons_df.rows[i].code) = out.unmatched[1]}) = 2
    /\ Len(mapping_df.rows) > 0

\* C5: Compute pressed without the consumption table, without the nutrition
\* table or without a nutrient column reports the error naming what is
\* missing and produces no merged table, summaries, downloads or unmatched
\* report; results are produced only when both tables are available
C5_MissingInputRefused ==
    /\ (ComputeRan /\ ~cons_df.present) =>
           out.error = "Please upload the consumption CSV first."
    /\ (ComputeRan /\ cons_df.present /\ ~mapping_df.present) =>
           out.error = "Could not load the nutrition mapping Excel from GitHub."
    /\ (ComputeRan /\ cons_df.present /\ mapping_df.present /\ chosen_nutrition_cols = <<>>) =>
           out.error = "No nutrition columns detected in mapping file."
    /\ (ComputeRan /\ (~cons_df.present \/ ~mapping_df.present \/ chosen_nutrition_cols = <<>>)) =>
           /\ ~out.computed
           /\ out.merged = <<>>
           /\ out.food_item_summary = {} /\ out.nutrition_summary = {}
           /\ out.downloads = {}
           /\ out.unmatched = <<>> /\ ~out.unmatched_shown
    /\ out.computed => cons_df.present /\ mapping_df.present /\ out.error = ""
C5_Witness ==
    /\ ComputeRan
    /\ cons_df.present /\ mapping_df.present /\ chosen_nutrition_cols = <<>>
    /\ Len(cons_df.rows) > 0
    /\ out.error # ""

\* C6: whenever the mapping load has reported its error, mapping_df is None
\* and the script run does not end with an uncaught exception
C6_LoadErrorMeansUnavailable == mapping_error => (~mapping_df.present /\ ~crashed)

\* C7: rows whose grams cell is missing or is no number once the thousands
\* separators are removed are counted by exactly one warning, are kept in the
\* merged table with grams 0, and without such rows there is no such warning
IsNumberText(t) ==
    LET keep == {i \in 1..Len(t) : t[i] # ","}
    IN /\ \E i \in keep : t[i] \in DigitSet
       /\ \A i \in keep : \/ t[i] \in DigitSet
                          \/ t[i] = "-" /\ \A x \in keep : i <= x
Unparsable(c) == c.kind = "nan" \/ (c.kind = "str" /\ ~IsNumberText(c.s))
BadGrams == {i \in ConsIdx : Unparsable(cons_df.rows[i].grams)}
GramsWarnings == {w \in 1..Len(out.warnings) : out.warnings[w].kind = "non_numeric_grams"}
C7_BadGramsCountedAndKept ==
    out.computed =>
        /\ BadGrams = {} => GramsWarnings = {}
        /\ BadGrams # {} =>
              /\ Cardinality(GramsWarnings) = 1
              /\ \A w \in GramsWarnings : out.warnings[w].n = Cardinality(BadGrams)
        /\ \A i \in BadGrams : \E j \in 1..Len(out.merged) :
              /\ out.merged[j].hh = cons_df.rows[i].hh
              /\ out.merged[j].id = cons_df.rows[i].id
              /\ out.merged[j].code.s = CodeText(cons_df.rows[i].code)
              /\ out.merged[j].grams = Num(0)
        /\ \A i \in ConsIdx \ BadGrams : \E j \in 1..Len(out.merged) :
              /\ out.merged[j].code.s = CodeText(cons_df.rows[i].code)
              /\ ~IsNa(out.merged[j].grams)
              /\ cons_df.rows[i].grams.kind = "int" => out.merged[j].grams = cons_df.rows[i].grams
C7_Witness ==
    /\ out.computed
    /\ Cardinality(BadGrams) = 1
    /\ \E i \in ConsIdx \ BadGrams : cons_df.rows[i].grams.kind = "str"
    /\ GramsWarnings # {}

\* C8: every row that enters the join-and-scale step has grams >= 0, whatever
\* the uploaded grams cells hold
C8_GramsNonNegative ==
    out.computed => \A j \in 1..Len(out.merged) : out.merged[j].grams.n >= 0

C10_FoodItemGrams ==
    out.computed =>
        SumOver(out.food_item_summary, [g \in out.food_item_summary |-> g.grams])
            = SumOver({i \in ConsIdx : HasEntry(cons_df.rows[i])},
                      [i \in ConsIdx |-> Quantity(cons_df.rows[i])])
====
